---- MODULE Spec2Model ----
(***************************************************************************)
(* Model of the configuration-binding engine of OneTrainerQt               *)
(* (src/modules/util/ui/UIState.py): the _VarBase cells, the UIState tree  *)
(* built over a BaseConfig node, the write-through callbacks installed by  *)
(* __create_vars, and the two listener registries (the per-var trace       *)
(* callbacks and valueChanged connections, and the per-UIState var traces).*)
(* Beside it, the training thread of TrainUI (src/modules/ui/TrainUI.py),  *)
(* as far as it touches the tree.                                          *)
(*                                                                         *)
(* Python values are tagged records [t, v]; Python strings are sequences   *)
(* of one-character strings so that int(), float() and str() are computed  *)
(* character by character.  Exponent notation and digit underscores are    *)
(* outside the input universe.                                             *)
(***************************************************************************)
EXTENDS Integers, Sequences, FiniteSets, TLC

\* Cap on the number of listener registrations made on the whole tree
\* (trace_add and add_var_trace calls, by the application or by a listener).
MaxRegs == 2

-----------------------------------------------------------------------------
(* Python values *)

PyNone == [t |-> "None", v |-> 0]
PyStr(s) == [t |-> "str", v |-> s]
PyBool(b) == [t |-> "bool", v |-> b]
PyInt(n) == [t |-> "int", v |-> n]
\* a finite float (-1)^neg * m * 10^-e, kept normalised (e = 0 or m % 10 # 0)
PyFloat(neg, m, e) == [t |-> "float", v |-> <<neg, m, e>>]
PyInf(neg) == [t |-> "inf", v |-> neg]
PyNan == [t |-> "nan", v |-> 0]
PyEnum(name) == [t |-> "enum", v |-> name]
\* a value of a type the engine does not bind
PyList == [t |-> "list", v |-> 0]

sEmpty == << >>
sNone == <<"N", "o", "n", "e">>
sInf == <<"i", "n", "f">>
sNegInf == <<"-", "i", "n", "f">>
sInfinity == <<"i", "n", "f", "i", "n", "i", "t", "y">>
sNan == <<"n", "a", "n">>

\* The members of the enum class of an enum-typed field (var_type); str() of a
\* member is its name, as the application's enums define it.
EnumNames == {<<"A">>, <<"B">>}

DigitChars == <<"0", "1", "2", "3", "4", "5", "6", "7", "8", "9">>

IsDigit(c) == \E i \in 1..10 : DigitChars[i] = c

DigitVal(c) == (CHOOSE i \in 1..10 : DigitChars[i] = c) - 1

IsDigits(s) == Len(s) > 0 /\ \A i \in 1..Len(s) : IsDigit(s[i])

RECURSIVE DigitsVal(_)
DigitsVal(s) ==
    IF s = << >> THEN 0
    ELSE 10 * DigitsVal(SubSeq(s, 1, Len(s) - 1)) + DigitVal(s[Len(s)])

RECURSIVE Pow10(_)
Pow10(e) == IF e = 0 THEN 1 ELSE 10 * Pow10(e - 1)

RECURSIVE Strip(_)
Strip(s) ==
    IF s # << >> /\ s[1] = " " THEN Strip(Tail(s))
    ELSE IF s # << >> /\ s[Len(s)] = " " THEN Strip(SubSeq(s, 1, Len(s) - 1))
    ELSE s

LowerChar(c) ==
    CASE c = "I" -> "i" [] c = "N" -> "n" [] c = "F" -> "f" [] c = "A" -> "a"
      [] c = "T" -> "t" [] c = "Y" -> "y" [] OTHER -> c

Lower(s) == [i \in 1..Len(s) |-> LowerChar(s[i])]

HasSign(s) == s # << >> /\ s[1] \in {"+", "-"}

Unsigned(s) == IF HasSign(s) THEN Tail(s) ELSE s

IsNeg(s) == s # << >> /\ s[1] = "-"

\* int(s) for a str s: [exc, v]; exc = "ValueError" when s is no integer literal
IntParse(s) ==
    LET body == Unsigned(Strip(s)) IN
    IF IsDigits(body)
    THEN [exc |-> "", v |-> PyInt(IF IsNeg(Strip(s)) THEN 0 - DigitsVal(body) ELSE DigitsVal(body))]
    ELSE [exc |-> "ValueError", v |-> PyNone]

RECURSIVE NatStr(_)
NatStr(n) ==
    IF n < 10 THEN <<DigitChars[n + 1]>>
    ELSE NatStr(n \div 10) \o <<DigitChars[(n % 10) + 1]>>

\* str(n) for an int n
IntStr(n) == IF n < 0 THEN <<"-">> \o NatStr(0 - n) ELSE NatStr(n)

RECURSIVE Normalise(_, _, _)
Normalise(neg, m, e) ==
    IF e > 0 /\ m % 10 = 0 THEN Normalise(neg, m \div 10, e - 1)
    ELSE PyFloat(neg, m, e)

DotAt(s) == IF \E i \in 1..Len(s) : s[i] = "." THEN CHOOSE i \in 1..Len(s) : s[i] = "." ELSE 0

\* float(s) for a str s: [exc, v]
FloatParse(s) ==
    LET t == Strip(s)
        neg == IsNeg(t)
        body == Unsigned(t)
        d == DotAt(body)
        ip == IF d = 0 THEN body ELSE SubSeq(body, 1, d - 1)
        fp == IF d = 0 THEN << >> ELSE SubSeq(body, d + 1, Len(body))
        digitsOk == /\ (ip = << >> \/ IsDigits(ip))
                    /\ (fp = << >> \/ IsDigits(fp))
                    /\ (ip # << >> \/ fp # << >>)
    IN  IF Lower(body) \in {sInf, sInfinity} THEN [exc |-> "", v |-> PyInf(neg)]
        ELSE IF Lower(body) = sNan THEN [exc |-> "", v |-> PyNan]
        ELSE IF digitsOk
        THEN [exc |-> "", v |-> Normalise(neg, DigitsVal(ip) * Pow10(Len(fp)) + DigitsVal(fp), Len(fp))]
        ELSE [exc |-> "ValueError", v |-> PyNone]

RECURSIVE PadDigits(_, _)
PadDigits(n, width) ==
    IF width = 0 THEN << >>
    ELSE PadDigits(n \div 10, width - 1) \o <<DigitChars[(n % 10) + 1]>>

\* str(x) for a Python value x, as __create_vars and __set_vars use it
PyToStr(x) ==
    CASE x.t = "int" -> IntStr(x.v)
      [] x.t = "float" ->
            (IF x.v[1] THEN <<"-">> ELSE << >>)
            \o NatStr(x.v[2] \div Pow10(x.v[3])) \o <<".">>
            \o (IF x.v[3] = 0 THEN <<"0">> ELSE PadDigits(x.v[2] % Pow10(x.v[3]), x.v[3]))
      [] x.t = "inf" -> IF x.v THEN sNegInf ELSE sInf
      [] x.t = "nan" -> sNan
      [] x.t = "enum" -> x.v
      [] x.t = "str" -> x.v
      [] x.t = "bool" -> IF x.v THEN <<"T", "r", "u", "e">> ELSE <<"F", "a", "l", "s", "e">>
      [] OTHER -> sNone

\* bool(x): the truthiness of a Python value
Truthy(x) ==
    CASE x.t = "None" -> FALSE
      [] x.t = "bool" -> x.v
      [] x.t = "str" -> x.v # << >>
      [] x.t = "int" -> x.v # 0
      [] x.t = "float" -> x.v[2] # 0
      [] OTHER -> TRUE

-----------------------------------------------------------------------------
(* The schema of the mirrored BaseConfig node and the program state *)

VARIABLES
    types,                \* obj.types / obj.nullables of each node: UIState -> <<[name, type, nullable]>>
    obj,                  \* the fields of the node the tree was built from: leaf -> value
    vars,                 \* UIState.__vars: UIState -> [name -> the entry object]
    value,                \* _VarBase._value of each leaf var
    trace_callbacks,      \* _VarBase._trace_callbacks: leaf -> <<[id, cb]>> in insertion order
    trace_id_counter,     \* _VarBase._trace_id_counter
    var_traces,           \* UIState.__var_traces[name]: leaf -> <<[id, cb]>> in insertion order
    latest_var_trace_id,  \* UIState.__latest_var_trace_id of each UIState
    connections,          \* the slots connected to valueChanged: leaf -> <<[id, cb]>>
    log,                  \* the listener invocations of the last call, in order
    lastCall,             \* the last call made on the tree and how it ended
    train,                \* TrainUI: training_thread, the position of the training thread,
                          \* train_config.cloud.enabled, and the calls that thread made on the tree
    button,               \* a LongTaskButton: _thread, stop_event, and its task threads
    cfg,                  \* a ConfigList / OTConfigFrame: current_config and the element widgets
    binding               \* which node the root's self.obj refers to, and the fields of the
                          \* node handed to update while the caller keeps it

allVars == <<types, obj, vars, value, trace_callbacks, trace_id_counter, var_traces,
             latest_var_trace_id, connections, log, lastCall, train, button, cfg, binding>>

States == {"root", "sub"}
Leaves == {"a", "b"}
LeafState(f) == IF f = "a" THEN "root" ELSE "sub"
LeafKinds == {"str", "int", "float", "bool", "enum"}

Field(name, type, nullable) == [name |-> name, type |-> type, nullable |-> nullable]

\* the node shapes the tree is built over: field a of every supported type,
\* an optional field of a type the engine does not bind, and a nested node
SchemaOf(ka, na, extra, kb, nb) ==
    [root |-> <<Field("a", ka, na)>>
              \o (IF extra THEN <<Field("extra", "list", FALSE)>> ELSE << >>)
              \o <<Field("sub", "config", FALSE)>>,
     sub  |-> <<Field("b", kb, nb)>>]

Schemas ==
    {SchemaOf(ka, na, extra, kb.k, kb.n) :
        ka \in LeafKinds, na \in BOOLEAN, extra \in BOOLEAN,
        kb \in {[k |-> "str", n |-> TRUE], [k |-> "int", n |-> FALSE]}}

FieldOf(f) == LET fs == types[LeafState(f)]
              IN  fs[CHOOSE i \in 1..Len(fs) : fs[i].name = f]

\* the values a field of a node can hold, by declared type
DomainOf(type, nullable) ==
    (IF nullable THEN {PyNone} ELSE {})
    \cup (CASE type = "str" -> {PyStr(<<"x">>), PyStr(sEmpty)}
            [] type = "int" -> {PyInt(5), PyInt(0 - 3)}
            [] type = "float" -> {PyFloat(FALSE, 5, 1), PyInf(FALSE)}
            [] type = "bool" -> {PyBool(TRUE), PyBool(FALSE)}
            [] type = "enum" -> {PyEnum(n) : n \in EnumNames}
            [] type = "list" -> {PyList}
            [] OTHER -> {})

\* the names of the fields of a schema that hold a value of their own
ValueFields(ts) ==
    UNION {{ts[s][i].name : i \in {k \in 1..Len(ts[s]) : ts[s][k].type # "config"}} : s \in States}

\* the nodes of a schema: one value per field that is no nested node
Nodes(ts) ==
    {[f \in ValueFields(ts) |-> IF f = "a" THEN va ELSE IF f = "b" THEN vb ELSE PyList] :
        va \in DomainOf(ts["root"][1].type, ts["root"][1].nullable),
        vb \in DomainOf(ts["sub"][1].type, ts["sub"][1].nullable)}

-----------------------------------------------------------------------------
(* The write-through callbacks: what each closure stores for var.get() *)

\* a null test that knows the empty string only
IsNullTokenEmptyOnly(sv) == sv = PyStr(sEmpty)

IsNullToken(sv) == sv = PyStr(sEmpty) \/ sv = PyStr(sNone)

\* __set_str_var.update
DecodeStr(sv, nullable) ==
    IF IsNullToken(sv) /\ nullable THEN [exc |-> "", v |-> PyNone]
    ELSE [exc |-> "", v |-> sv]

\* an enum decoder that swallows the failed lookup as the numeric decoders do
DecodeEnumLenient(sv, nullable) ==
    IF IsNullToken(sv) /\ nullable THEN [exc |-> "", v |-> PyNone]
    ELSE IF sv.t = "enum" THEN [exc |-> "", v |-> sv]
    ELSE IF sv.t = "str" /\ sv.v \in EnumNames THEN [exc |-> "", v |-> PyEnum(sv.v)]
    ELSE [exc |-> "", v |-> PyNone]

\* __set_enum_var.update
DecodeEnum(sv, nullable) ==
    IF IsNullToken(sv) /\ nullable THEN [exc |-> "", v |-> PyNone]
    ELSE IF sv.t = "enum" THEN [exc |-> "", v |-> sv]
    ELSE IF sv.t = "str" /\ sv.v \in EnumNames THEN [exc |-> "", v |-> PyEnum(sv.v)]
    ELSE [exc |-> "KeyError", v |-> PyNone]

\* __set_bool_var.update: var.get() or False
DecodeBool(sv) ==
    IF Truthy(sv) THEN [exc |-> "", v |-> sv] ELSE [exc |-> "", v |-> PyBool(FALSE)]

\* int(x) inside contextlib.suppress(ValueError): final_value keeps its
\* initial None when ValueError is suppressed
SuppressedInt(sv) ==
    CASE sv.t = "str" -> [exc |-> "", v |-> IntParse(sv.v).v]
      [] sv.t = "int" -> [exc |-> "", v |-> sv]
      [] sv.t = "bool" -> [exc |-> "", v |-> PyInt(IF sv.v THEN 1 ELSE 0)]
      [] OTHER -> [exc |-> "TypeError", v |-> PyNone]

\* __set_int_var.update; int(float("inf")) raises OverflowError
DecodeInt(sv, nullable) ==
    IF IsNullToken(sv) /\ nullable THEN [exc |-> "", v |-> PyNone]
    ELSE IF sv = PyStr(sInf) \/ sv = PyStr(sNegInf) THEN [exc |-> "OverflowError", v |-> PyNone]
    ELSE SuppressedInt(sv)

SuppressedFloat(sv) ==
    CASE sv.t = "str" -> [exc |-> "", v |-> FloatParse(sv.v).v]
      [] sv.t = "int" -> [exc |-> "", v |-> PyFloat(sv.v < 0, IF sv.v < 0 THEN 0 - sv.v ELSE sv.v, 0)]
      [] sv.t \in {"float", "inf", "nan"} -> [exc |-> "", v |-> sv]
      [] OTHER -> [exc |-> "TypeError", v |-> PyNone]

\* __set_float_var.update
DecodeFloat(sv, nullable) ==
    IF IsNullToken(sv) /\ nullable THEN [exc |-> "", v |-> PyNone]
    ELSE IF sv = PyStr(sInf) THEN [exc |-> "", v |-> PyInf(FALSE)]
    ELSE IF sv = PyStr(sNegInf) THEN [exc |-> "", v |-> PyInf(TRUE)]
    ELSE SuppressedFloat(sv)

\* the closure __create_vars attaches to a leaf of the given type
Decode(type, nullable, sv) ==
    CASE type = "str" -> DecodeStr(sv, nullable)
      [] type = "enum" -> DecodeEnum(sv, nullable)
      [] type = "bool" -> DecodeBool(sv)
      [] type = "int" -> DecodeInt(sv, nullable)
      [] type = "float" -> DecodeFloat(sv, nullable)

\* the initial _value __create_vars gives the var of a leaf
InitialValue(type, ov) ==
    CASE type = "str" -> IF ov # PyNone THEN ov ELSE PyStr(sEmpty)
      [] type = "enum" -> IF Truthy(ov) THEN PyStr(PyToStr(ov)) ELSE PyStr(sEmpty)
      [] type = "bool" -> PyBool(Truthy(ov))
      [] OTHER -> IF ov # PyNone THEN PyStr(PyToStr(ov)) ELSE PyStr(sEmpty)

\* a re-sync that takes str() of the field's value without looking for None
UpdateValueStrOfNone(type, ov) ==
    CASE type = "bool" -> PyBool(Truthy(ov))
      [] type = "str" -> IF ov = PyNone THEN PyStr(sEmpty) ELSE ov
      [] OTHER -> PyStr(PyToStr(ov))

\* the value __set_vars hands to var.set for a leaf
UpdateValue(type, ov) ==
    CASE type = "bool" -> PyBool(Truthy(ov))
      [] type = "str" -> IF ov = PyNone THEN PyStr(sEmpty) ELSE ov
      [] OTHER -> IF ov = PyNone THEN PyStr(sEmpty) ELSE PyStr(PyToStr(ov))

-----------------------------------------------------------------------------
(* Listeners.  A registration is a record [id, cb]; cb names the callable.  *)
(* "update" is the write-through closure of __create_vars; the others are   *)
(* callables of the application.                                            *)

\* A: returns normally.  R: raises.  S: calls trace_add(A) on the var it was
\* invoked for.  V: calls add_var_trace(name, A) for the field it was invoked for.
Commands == {"A", "R", "S", "V"}

Reg(id, cb) == [id |-> id, cb |-> cb]

\* a pop that drops every registration of the callable registered under id
PopSameCallback(d, id) ==
    SelectSeq(d, LAMBDA e : \A i \in 1..Len(d) : d[i].id = id => e.cb # d[i].cb)

\* dict.pop(id, None) on an insertion-ordered dict
Pop(d, id) == SelectSeq(d, LAMBDA e : e.id # id)

HasKey(d, id) == \E i \in 1..Len(d) : d[i].id = id

\* the mutable state the operations act on, as one record
World ==
    [obj |-> obj, value |-> value, tc |-> trace_callbacks, tcn |-> trace_id_counter,
     vt |-> var_traces, vtn |-> latest_var_trace_id, conn |-> connections,
     log |-> << >>, exc |-> "", depth |-> 0, fired |-> FALSE, qt |-> FALSE,
     self_obj |-> binding.self_obj, newNode |-> binding.newNode]

\* _VarBase.trace_add
TraceAddW(w, f, cb) ==
    [w EXCEPT !.tcn[f] = @ + 1, !.tc[f] = Append(@, Reg(w.tcn[f] + 1, cb))]

\* _VarBase.trace_remove
TraceRemoveW(w, f, id) == [w EXCEPT !.tc[f] = Pop(@, id)]

\* UIState.add_var_trace for a name bound to a var
AddVarTraceW(w, f, cmd) ==
    LET id == w.vtn[LeafState(f)] + 1 IN
    [w EXCEPT !.vtn[LeafState(f)] = id,
              !.vt[f] = Append(@, Reg(id, cmd)),
              !.conn[f] = Append(@, Reg(id, cmd))]

\* UIState.remove_var_trace: the valueChanged connection stays
RemoveVarTraceW(w, name, id) == [w EXCEPT !.vt[name] = Pop(@, id)]

RECURSIVE VarSet(_, _, _, _)

\* what the re-entering listener hands to set
ReenterValue == PyStr(<<"7">>)

\* a set made from a listener that is kept from the listeners: only the value
\* is stored
ReenterSuppressed(w, f) == [w EXCEPT !.fired = TRUE, !.value[f] = ReenterValue]

\* a listener of field f calls var.set on the var it listens to, while it is
\* invoked for a set of that var: cb() at the end of _VarBase.set enters set
Reenter(w, f) ==
    LET wi == VarSet([w EXCEPT !.fired = TRUE, !.depth = @ + 1], f, ReenterValue, w.qt)
    IN  [wi EXCEPT !.depth = w.depth]

\* one invocation of a listener for field f; it sees get() and the node's
\* field. The listener Y sets the field once, at its first invocation.
Invoke(w, f, via, e) ==
    LET w1 == [w EXCEPT !.log = Append(@, [name |-> f, via |-> via, id |-> e.id, who |-> e.cb,
                                           got |-> w.value[f], saw |-> w.obj[f],
                                           depth |-> w.depth])]
    IN  CASE e.cb = "R" -> [w1 EXCEPT !.exc = "ListenerError"]
          [] e.cb = "S" -> TraceAddW(w1, f, "A")
          [] e.cb = "V" -> AddVarTraceW(w1, f, "A")
          [] e.cb = "Y" -> IF w1.fired THEN w1 ELSE Reenter(w1, f)
          [] OTHER -> w1

\* __call_var_traces: for cb in self.__var_traces[name].values(): cb()
\* (a dict that changed size makes the next step of the iteration raise)
RECURSIVE CallVarTraces(_, _, _, _)
CallVarTraces(w, f, i, n0) ==
    IF w.exc # "" THEN w
    ELSE IF Len(w.vt[f]) # n0 THEN [w EXCEPT !.exc = "RuntimeError"]
    ELSE IF i > n0 THEN w
    ELSE CallVarTraces(Invoke(w, f, "var_trace", w.vt[f][i]), f, i + 1, n0)

\* a write-through that looks the node up through self.obj at the time of the write
TargetOfSelfObj(w) == w.self_obj

\* the node a write-through closure writes to: the obj handed to __set_*_var
\* when __create_vars built the closure
Target(w) == "build"

\* the closure update() of __set_*_var: decode var.get(), store, call the var traces
WriteThrough(w, f) ==
    LET d == Decode(FieldOf(f).type, FieldOf(f).nullable, w.value[f]) IN
    IF d.exc # "" THEN [w EXCEPT !.exc = d.exc]
    ELSE LET w1 == IF Target(w) = "build" THEN [w EXCEPT !.obj[f] = d.v]
                   ELSE [w EXCEPT !.newNode[f] = d.v]
         IN  CallVarTraces(w1, f, 1, Len(w1.vt[f]))

\* valueChanged.emit: the slots connected when the emission starts, in
\* connection order; an exception of a slot either is printed and the emission
\* goes on, or ends the emission and reaches the caller (qtRaises)
RECURSIVE Emit(_, _, _, _, _)
Emit(w, f, slots, i, qtRaises) ==
    IF i > Len(slots) THEN w
    ELSE LET w1 == Invoke(w, f, "signal", slots[i]) IN
         IF w1.exc = "" THEN Emit(w1, f, slots, i + 1, qtRaises)
         ELSE IF qtRaises THEN w1
         ELSE Emit([w1 EXCEPT !.exc = ""], f, slots, i + 1, qtRaises)

\* for cb in self._trace_callbacks.values(): cb()
RECURSIVE CallTraceCallbacks(_, _, _, _)
CallTraceCallbacks(w, f, i, n0) ==
    IF w.exc # "" THEN w
    ELSE IF Len(w.tc[f]) # n0 THEN [w EXCEPT !.exc = "RuntimeError"]
    ELSE IF i > n0 THEN w
    ELSE LET e == w.tc[f][i]
             w1 == IF e.cb = "update" THEN WriteThrough(w, f) ELSE Invoke(w, f, "trace", e)
         IN  CallTraceCallbacks(w1, f, i + 1, n0)

\* _VarBase.set
VarSet(w, f, v, qtRaises) ==
    LET w1 == [w EXCEPT !.value[f] = v, !.qt = qtRaises]
        w2 == Emit(w1, f, w1.conn[f], 1, qtRaises)
    IN  IF w2.exc # "" THEN w2
        ELSE CallTraceCallbacks(w2, f, 1, Len(w2.tc[f]))

\* UIState.__set_vars for a BaseConfig node: the fields in obj.types order
RECURSIVE SetVars(_, _, _, _, _)
SetVars(w, s, i, node, qtRaises) ==
    IF w.exc # "" \/ i > Len(types[s]) THEN w
    ELSE LET fld == types[s][i] IN
         IF fld.name \notin DOMAIN vars[s] THEN [w EXCEPT !.exc = "KeyError"]
         ELSE IF fld.type = "config"
         THEN SetVars(SetVars(w, fld.name, 1, node, qtRaises), s, i + 1, node, qtRaises)
         ELSE SetVars(VarSet(w, fld.name, UpdateValue(fld.type, node[fld.name]), qtRaises),
                      s, i + 1, node, qtRaises)

\* a get_var that hands back the var it cannot descend into
RECURSIVE GetVarFromLenient(_, _)
GetVarFromLenient(entry, path) ==
    IF path = << >> THEN [exc |-> "", entry |-> entry]
    ELSE IF entry.cls # "UIState" THEN [exc |-> "", entry |-> entry]
    ELSE IF path[1] \notin DOMAIN vars[entry.ref] THEN [exc |-> "KeyError", entry |-> entry]
    ELSE GetVarFromLenient(vars[entry.ref][path[1]], Tail(path))

\* UIState.get_var: [exc, entry] for a dotted path given as its segments
RECURSIVE GetVarFrom(_, _)
GetVarFrom(entry, path) ==
    IF path = << >> THEN [exc |-> "", entry |-> entry]
    ELSE IF entry.cls # "UIState" THEN [exc |-> "AttributeError", entry |-> entry]
    ELSE IF path[1] \notin DOMAIN vars[entry.ref] THEN [exc |-> "KeyError", entry |-> entry]
    ELSE GetVarFrom(vars[entry.ref][path[1]], Tail(path))

\* a get_var that accepts only a var as the result
GetVarLeafOnly(path) ==
    LET r == GetVarFrom([cls |-> "UIState", ref |-> "root", oid |-> <<"root", 0>>], path)
    IN  IF r.exc = "" /\ r.entry.cls = "UIState"
        THEN [exc |-> "AttributeError", entry |-> r.entry] ELSE r

GetVar(path) == GetVarFrom([cls |-> "UIState", ref |-> "root", oid |-> <<"root", 0>>], path)

-----------------------------------------------------------------------------
(* Construction *)

VarClass(type) == IF type = "bool" THEN "_BoolVar" ELSE "_StringVar"

EntryOf(fld) ==
    IF fld.type = "config"
    THEN [cls |-> "UIState", ref |-> fld.name, oid |-> <<fld.name, 0>>]
    ELSE [cls |-> VarClass(fld.type), ref |-> fld.name, oid |-> <<fld.name, 0>>]

\* a build that binds every field, one of no known type as a string
CreateVarsBindingAll(ts) ==
    [s \in States |->
        [n \in {ts[s][i].name : i \in 1..Len(ts[s])} |->
            EntryOf(ts[s][CHOOSE i \in 1..Len(ts[s]) : ts[s][i].name = n])]]

\* UIState.__create_vars: one entry per field of a bound type, none for the others
CreateVars(ts) ==
    [s \in States |->
        LET bound == {i \in 1..Len(ts[s]) : ts[s][i].type \in LeafKinds \cup {"config"}}
        IN  [n \in {ts[s][i].name : i \in bound} |->
                EntryOf(ts[s][CHOOSE i \in bound : ts[s][i].name = n])]]

BoundNames(vs) == UNION {DOMAIN vs[s] : s \in States}

\* UIState.__init__ over a node of schema ts: the tree and its registries
InitTree(ts, node) ==
    /\ types = ts
    /\ obj = node
    /\ vars = CreateVars(ts)
    /\ value = [f \in Leaves |->
                    LET fs == ts[LeafState(f)]
                        fld == fs[CHOOSE i \in 1..Len(fs) : fs[i].name = f]
                    IN  InitialValue(fld.type, node[f])]
    /\ trace_callbacks = [f \in Leaves |-> <<Reg(1, "update")>>]
    /\ trace_id_counter = [f \in Leaves |-> 1]
    /\ var_traces = [n \in BoundNames(CreateVars(ts)) |-> << >>]
    /\ latest_var_trace_id = [s \in States |-> 0]
    /\ connections = [f \in Leaves |-> << >>]
    /\ log = << >>
    /\ lastCall = [op |-> "init", name |-> "", arg |-> PyNone, ret |-> 0, exc |-> ""]

\* TrainUI.__init__: no training thread
NoTraining(cloudEnabled) ==
    [training_thread |-> "None", pc |-> "idle", cloud_enabled |-> cloudEnabled,
     stop |-> FALSE, error_caught |-> FALSE, workerCalls |-> {},
     training_callbacks |-> FALSE, training_commands |-> 0,
     runs |-> 0, clearing |-> 0, finishing |-> 0, op |-> "init", sample |-> "none"]

\* LongTaskButton.__init__; the task threads are numbered as they are created
NewButton ==
    [thread |-> 0, stop_event |-> FALSE, started |-> 0, running |-> {}, pending |-> {},
     op |-> "init"]

\* ConfigList.__init__ with no element loaded
NewConfigList == [current_config |-> << >>, widgets |-> << >>, made |-> 0, op |-> "init"]

\* self.obj = obj of UIState.__init__: the root refers to the node it is built over
BuildBinding == [self_obj |-> "build", newNode |-> << >>]

\* UIState.__init__ over a node of schema ts
InitOver(ts, node) ==
    /\ train = NoTraining(FALSE)
    /\ button = NewButton
    /\ cfg = NewConfigList
    /\ binding = BuildBinding
    /\ InitTree(ts, node)

Init == \E ts \in Schemas : \E node \in Nodes(ts) : InitOver(ts, node)

-----------------------------------------------------------------------------
(* Operations *)

RECURSIVE SumOver(_, _)
SumOver(g, S) ==
    IF S = {} THEN 0
    ELSE LET x == CHOOSE y \in S : TRUE IN g[x] + SumOver(g, S \ {x})

\* the registrations made so far: every id either counter has handed out,
\* less the write-through closure of each var
RegsMade(w) == SumOver(w.tcn, Leaves) - Cardinality(Leaves) + SumOver(w.vtn, States)

InBounds(w) == RegsMade(w) <= MaxRegs

CommitTree(w) ==
    /\ obj' = w.obj
    /\ value' = w.value
    /\ trace_callbacks' = w.tc
    /\ trace_id_counter' = w.tcn
    /\ var_traces' = w.vt
    /\ latest_var_trace_id' = w.vtn
    /\ connections' = w.conn
    /\ log' = w.log
    /\ UNCHANGED <<types, vars>>

\* a call made on the UI thread
Commit(w) == CommitTree(w) /\ UNCHANGED <<train, button, cfg, binding>>

\* var.set(v) on the var of leaf f, from a control
Set(f, v, qtRaises) ==
    \E w \in {VarSet(World, f, v, qtRaises)} :
    /\ InBounds(w)
    /\ Commit(w)
    /\ lastCall' = [op |-> "set", name |-> f, arg |-> v, ret |-> 0, exc |-> w.exc]

\* an update that builds the vars anew from the node instead of re-syncing them
UpdateRebuilding(node, qtRaises) ==
    /\ obj' = obj
    /\ vars' = [s \in States |-> [n \in DOMAIN vars[s] |-> [vars[s][n] EXCEPT !.oid[2] = @ + 1]]]
    /\ value' = [f \in Leaves |-> InitialValue(FieldOf(f).type, node[f])]
    /\ trace_callbacks' = [f \in Leaves |-> <<Reg(1, "update")>>]
    /\ trace_id_counter' = [f \in Leaves |-> 1]
    /\ connections' = [f \in Leaves |-> << >>]
    /\ log' = << >>
    /\ UNCHANGED <<types, var_traces, latest_var_trace_id, train, button, cfg, binding>>
    /\ lastCall' = [op |-> "update", name |-> "", arg |-> node, ret |-> 0, exc |-> ""]

\* UIState.update(obj) on the root: self.obj = obj; self.__set_vars(obj)
UpdateW(w, node, qtRaises) ==
    SetVars([w EXCEPT !.self_obj = "new", !.newNode = node], "root", 1, node, qtRaises)

\* UIState.update(node) on the root, with a node the caller drops after the
\* call (self.obj, which then holds the only reference, is read by no operation)
Update(node, qtRaises) ==
    \E w \in {UpdateW(World, node, qtRaises)} :
    /\ InBounds(w)
    /\ Commit(w)
    /\ lastCall' = [op |-> "update", name |-> "", arg |-> node, ret |-> 0, exc |-> w.exc]

\* UIState.update(newNode) on the root, with a node the caller keeps
UpdateKept(node, qtRaises) ==
    \E w \in {UpdateW(World, node, qtRaises)} :
    /\ InBounds(w)
    /\ CommitTree(w)
    /\ binding' = [self_obj |-> w.self_obj, newNode |-> w.newNode]
    /\ UNCHANGED <<train, button, cfg>>
    /\ lastCall' = [op |-> "update", name |-> "", arg |-> node, ret |-> 0, exc |-> w.exc]

\* var.set(v) on the var of leaf f, from a control, while the caller of update
\* keeps the node it handed over
SetKept(f, v, qtRaises) ==
    \E w \in {VarSet(World, f, v, qtRaises)} :
    /\ InBounds(w)
    /\ CommitTree(w)
    /\ binding' = [self_obj |-> w.self_obj, newNode |-> w.newNode]
    /\ UNCHANGED <<train, button, cfg>>
    /\ lastCall' = [op |-> "set", name |-> f, arg |-> v, ret |-> 0, exc |-> w.exc]

\* var.trace_add(cb)
TraceAdd(f, cb) ==
    /\ RegsMade(World) < MaxRegs
    /\ Commit(TraceAddW(World, f, cb))
    /\ lastCall' = [op |-> "trace_add", name |-> f, arg |-> cb,
                    ret |-> trace_id_counter[f] + 1, exc |-> ""]

\* var.trace_remove(id)
TraceRemove(f, id) ==
    /\ Commit(TraceRemoveW(World, f, id))
    /\ lastCall' = [op |-> "trace_remove", name |-> f, arg |-> id, ret |-> 0, exc |-> ""]

\* ui_state.add_var_trace(name, cmd) on UIState s
AddVarTrace(s, name, cmd) ==
    LET id == latest_var_trace_id[s] + 1
        w0 == [World EXCEPT !.vtn[s] = id]
    IN  /\ RegsMade(World) < MaxRegs
        /\ IF name \notin DOMAIN vars[s]
           THEN /\ Commit(w0)
                /\ lastCall' = [op |-> "add_var_trace", name |-> name, arg |-> cmd,
                                ret |-> 0, exc |-> "KeyError"]
           ELSE IF vars[s][name].cls = "UIState"
           THEN /\ Commit([w0 EXCEPT !.vt[name] = Append(@, Reg(id, cmd))])
                /\ lastCall' = [op |-> "add_var_trace", name |-> name, arg |-> cmd,
                                ret |-> 0, exc |-> "AttributeError"]
           ELSE /\ Commit(AddVarTraceW(World, name, cmd))
                /\ lastCall' = [op |-> "add_var_trace", name |-> name, arg |-> cmd,
                                ret |-> id, exc |-> ""]

\* ui_state.get_var(path) on the root
GetVarCall(path) ==
    \E r \in {GetVar(path)} :
    /\ Commit(World)
    /\ lastCall' = [op |-> "get_var", name |-> "", arg |-> path,
                    ret |-> IF r.exc = "" THEN r.entry ELSE 0, exc |-> r.exc]

\* ui_state.remove_var_trace(name, id) on UIState s
RemoveVarTrace(s, name, id) ==
    /\ IF name \in DOMAIN vars[s]
       THEN Commit(RemoveVarTraceW(World, name, id))
       ELSE Commit(World)
    /\ lastCall' = [op |-> "remove_var_trace", name |-> name, arg |-> id, ret |-> 0, exc |-> ""]

-----------------------------------------------------------------------------
(* TrainUI: the training thread.  Each step is one blocking call of            *)
(* __training_thread_function together with the statements up to the next one *)

treeVars == <<types, obj, vars, value, trace_callbacks, trace_id_counter, var_traces,
              latest_var_trace_id, connections, log, lastCall>>

\* what a step of TrainUI leaves alone
trainFrame == <<treeVars, button, cfg, binding>>

\* TrainUI.start_training, on the UI thread: start the thread, or ask a running
\* training to stop
MaxRuns == 2

\* start_training, from the training button or from the reattach button of
\* the cloud tab: training_commands holds the number of the run whose
\* TrainCommands it refers to, 0 for None
StartTraining ==
    /\ IF train.training_thread = "None"
       THEN /\ train.runs < MaxRuns
            /\ train' = [train EXCEPT !.training_thread = "alive", !.pc = "begin",
                                      !.training_commands = train.runs + 1,
                                      !.runs = @ + 1,
                                      !.stop = FALSE, !.error_caught = FALSE,
                                      !.op = "start_training"]
       ELSE train' = [train EXCEPT !.stop = (train.training_commands # 0) \/ @,
                                   !.op = "start_training"]
    /\ UNCHANGED trainFrame

\* the training thread enters __training_thread_function: it stores a new
\* TrainCallbacks and builds the trainer
ThreadBegin ==
    /\ train.pc = "begin"
    /\ train' = [train EXCEPT !.training_callbacks = TRUE, !.pc = "start", !.op = "thread"]
    /\ UNCHANGED trainFrame

\* where the thread goes when the try block raises: the except clause updates
\* the tree first when cloud training is enabled
AfterException == IF train.cloud_enabled THEN "syncExcept" ELSE "end"

\* trainer.start() in the training thread returns (ok) or raises
TrainerStart(ok) ==
    /\ train.pc = "start"
    /\ train' = IF ok
                THEN [train EXCEPT !.pc = IF train.cloud_enabled THEN "sync" ELSE "train",
                                   !.op = "thread"]
                ELSE [train EXCEPT !.pc = AfterException, !.error_caught = ~train.cloud_enabled,
                                   !.op = "thread"]
    /\ UNCHANGED trainFrame

\* self.ui_state.get_var("secrets.cloud").update(self.train_config.secrets.cloud),
\* called by the training thread inside try and inside except; an exception
\* inside except ends the thread with training_thread still set
WorkerUpdate(node) ==
    /\ train.pc \in {"sync", "syncExcept"}
    /\ \E w \in {SetVars(World, "sub", 1, node, FALSE)} :
        /\ InBounds(w)
        /\ CommitTree(w)
        /\ UNCHANGED <<button, cfg, binding>>
        /\ lastCall' = [op |-> "update", name |-> "sub", arg |-> node, ret |-> 0, exc |-> w.exc]
        /\ train' = [train EXCEPT
                !.workerCalls = @ \cup {"update"},
                !.op = "thread",
                !.pc = IF train.pc = "sync"
                       THEN (IF w.exc = "" THEN "train" ELSE "syncExcept")
                       ELSE (IF w.exc = "" THEN "end" ELSE "dead"),
                !.error_caught = (train.pc = "syncExcept" /\ w.exc = "")]

\* trainer.train() returns (ok) or raises
TrainerTrain(ok) ==
    /\ train.pc = "train"
    /\ train' = IF ok THEN [train EXCEPT !.pc = "end", !.op = "thread"]
                ELSE [train EXCEPT !.pc = AfterException, !.error_caught = ~train.cloud_enabled,
                                   !.op = "thread"]
    /\ UNCHANGED trainFrame

\* trainer.end(), del trainer and self.training_thread = None: the thread
\* goes on with the statements after it
TrainerEnd ==
    /\ train.pc = "end"
    /\ train' = [train EXCEPT !.training_thread = "None", !.pc = "idle",
                              !.clearing = @ + 1, !.op = "thread"]
    /\ UNCHANGED trainFrame

\* self.training_commands = None, by a thread that has reset training_thread
ThreadClear ==
    /\ train.clearing > 0
    /\ train' = [train EXCEPT !.clearing = @ - 1, !.finishing = @ + 1,
                              !.training_commands = 0, !.stop = FALSE, !.op = "thread"]
    /\ UNCHANGED trainFrame

\* the rest of the thread function: the caches, the status line, the button
ThreadFinish ==
    /\ train.finishing > 0
    /\ train' = [train EXCEPT !.finishing = @ - 1, !.op = "thread"]
    /\ UNCHANGED trainFrame

\* the number of threads that are executing __training_thread_function
Executing ==
    (IF train.pc \in {"idle", "dead"} THEN 0 ELSE 1) + train.clearing + train.finishing

\* open_sampling_tool: the window opens when neither training_callbacks nor
\* training_commands holds an object
OpenSamplingTool ==
    /\ train' = [train EXCEPT
            !.sample = IF ~train.training_callbacks /\ train.training_commands = 0
                       THEN "opened" ELSE "skipped",
            !.op = "open_sampling_tool"]
    /\ UNCHANGED trainFrame

-----------------------------------------------------------------------------
(* Inputs *)

StrInputs ==
    {sEmpty, sNone, sInf, sNegInf, <<"a", "b", "c">>, <<"-">>, <<"5">>, <<"-", "3">>,
     <<"0", ".", "5">>, <<" ", "7">>, <<"A">>, <<"z">>}

\* what a control hands to set for a field of the given type
SetInputs(f) ==
    IF FieldOf(f).type = "bool"
    THEN {PyBool(TRUE), PyBool(FALSE), PyStr(<<"x">>), PyStr(sEmpty), PyInt(1), PyInt(0), PyNone}
    ELSE IF f = "a" THEN {PyStr(x) : x \in StrInputs}
    ELSE {PyStr(sEmpty), PyStr(<<"a", "b", "c">>), PyStr(<<"1", "2">>)}

\* the dotted paths the application resolves, as their segments
Paths ==
    {<<"a">>, <<"sub">>, <<"sub", "b">>, <<"a", "b">>, <<"extra">>,
     <<"sub", "b", "a">>, <<"a", "sub", "b">>}

Next ==
    \/ \E f \in Leaves : \E v \in SetInputs(f) : Set(f, v, FALSE)
    \/ \E node \in Nodes(types) : Update(node, FALSE)
    \/ \E p \in Paths : GetVarCall(p)

Spec == Init /\ [][Next]_allVars

\* the tree over one fixed schema, with the listener registries in use
ListenSchema == SchemaOf("str", FALSE, FALSE, "int", FALSE)

ListenInputs(f) ==
    IF f = "a" THEN {PyStr(<<"x">>), PyStr(<<"y">>)} ELSE {PyStr(<<"1", "2">>)}

ListenNode(va, vb) == [f \in Leaves |-> IF f = "a" THEN va ELSE vb]

ListenNodes == {ListenNode(PyStr(<<"x">>), PyInt(5)), ListenNode(PyStr(sEmpty), PyInt(0 - 3))}

\* the callables the application registers on a field
ListenCommands(name) == IF name = "a" THEN Commands ELSE {"A"}

\* the handles the application passes to an unsubscribe: the ids of the dict
\* (the write-through closure's id is never handed to the application) and
\* one id the dict does not hold
TraceHandles(f) ==
    {trace_callbacks[f][i].id : i \in 2..Len(trace_callbacks[f])} \cup {trace_id_counter[f] + 1}

VarTraceHandles(name) ==
    {var_traces[name][i].id : i \in 1..Len(var_traces[name])}
    \cup {latest_var_trace_id[LeafState(name)] + 1}

\* whether the Qt binding lets a slot's exception reach the caller of emit
\* is a choice only where a connected slot raises
QtChoices(fs) ==
    IF \E f \in fs : \E i \in 1..Len(connections[f]) : connections[f][i].cb = "R"
    THEN BOOLEAN ELSE {FALSE}

InitListen == InitOver(ListenSchema, ListenNode(PyStr(<<"x">>), PyInt(5)))

NextListen ==
    \/ \E f \in Leaves : \E v \in ListenInputs(f) : \E q \in QtChoices({f}) : Set(f, v, q)
    \/ \E node \in ListenNodes : \E q \in QtChoices(Leaves) : Update(node, q)
    \/ \E f \in Leaves : \E cb \in ListenCommands(f) : TraceAdd(f, cb)
    \/ \E f \in Leaves : \E id \in TraceHandles(f) : TraceRemove(f, id)
    \/ \E f \in Leaves : \E cmd \in ListenCommands(f) : AddVarTrace(LeafState(f), f, cmd)
    \/ \E f \in Leaves : \E id \in VarTraceHandles(f) : RemoveVarTrace(LeafState(f), f, id)

SpecListen == InitListen /\ [][NextListen]_allVars

\* the tree with listeners that set the field they listen to
ReenterCommands == {"A", "Y"}

NextReenter ==
    \/ \E f \in Leaves : \E v \in ListenInputs(f) : Set(f, v, FALSE)
    \/ \E f \in Leaves : \E cb \in ReenterCommands : TraceAdd(f, cb)
    \/ \E f \in Leaves : \E cmd \in ReenterCommands : AddVarTrace(LeafState(f), f, cmd)

SpecReenter == InitListen /\ [][NextReenter]_allVars

\* the tree updated from nodes that are other objects than the node it was
\* built over
RebindInputs(f) ==
    IF f = "a" THEN {PyStr(<<"x">>), PyStr(<<"y">>)} ELSE {PyStr(<<"1", "2">>), PyStr(<<"7">>)}

RebindNodes ==
    {ListenNode(va, vb) : va \in {PyStr(<<"x">>), PyStr(sEmpty)}, vb \in {PyInt(5), PyInt(0 - 3)}}

NextRebind ==
    \/ \E f \in Leaves : \E v \in RebindInputs(f) : SetKept(f, v, FALSE)
    \/ \E node \in RebindNodes : UpdateKept(node, FALSE)
    \/ \E f \in Leaves : TraceAdd(f, "A")
    \/ \E f \in Leaves : AddVarTrace(LeafState(f), f, "A")

SpecRebind == InitListen /\ [][NextRebind]_allVars

\* the tree with the training thread of TrainUI beside the UI thread
InitTrain ==
    \E c \in BOOLEAN :
        /\ train = NoTraining(c)
        /\ button = NewButton
        /\ cfg = NewConfigList
        /\ binding = BuildBinding
        /\ InitTree(ListenSchema, ListenNode(PyStr(<<"x">>), PyInt(5)))

NextTrain ==
    \/ \E f \in Leaves : \E v \in ListenInputs(f) : Set(f, v, FALSE)
    \/ \E node \in ListenNodes : Update(node, FALSE)
    \/ TraceAdd("b", "R")
    \/ StartTraining
    \/ \E ok \in BOOLEAN : TrainerStart(ok)
    \/ \E node \in ListenNodes : WorkerUpdate(node)
    \/ \E ok \in BOOLEAN : TrainerTrain(ok)
    \/ TrainerEnd
    \/ ThreadBegin
    \/ ThreadClear
    \/ ThreadFinish
    \/ OpenSamplingTool

SpecTrain == InitTrain /\ [][NextTrain]_allVars

-----------------------------------------------------------------------------
(* LongTaskButton: a button that starts a task in a thread of its own, or asks
   the running task to stop *)

MaxTasks == 4

\* what a step of the button leaves alone
buttonFrame == <<treeVars, train, cfg, binding>>

\* QThread.isRunning of self._thread: from start() until run() has returned
IsRunning == button.thread \in button.running

\* LongTaskButton._handle_click. A click that replaces self._thread drops the
\* last reference to the thread it held; whether a finished notification of
\* that thread still queued for the button is delivered afterwards is left to
\* the Qt binding (keepsFinished).
HandleClick(keepsFinished) ==
    /\ IF button.thread = 0 \/ ~IsRunning
       THEN /\ button.started < MaxTasks
            /\ button' = [button EXCEPT !.stop_event = FALSE,
                                        !.thread = button.started + 1,
                                        !.started = @ + 1,
                                        !.running = @ \cup {button.started + 1},
                                        !.pending = IF keepsFinished THEN @
                                                    ELSE @ \ {button.thread},
                                        !.op = "click"]
       ELSE button' = [button EXCEPT !.stop_event = TRUE, !.op = "click"]
    /\ UNCHANGED buttonFrame

\* TaskThread.run returns: the callback has ended and the thread emits
\* finished, which is queued for the button's thread. A thread the button no
\* longer refers to may be destroyed before it notifies.
TaskReturns(t, notifies) ==
    /\ t \in button.running
    /\ button' = [button EXCEPT !.running = @ \ {t},
                                !.pending = IF notifies THEN @ \cup {t} ELSE @,
                                !.op = "returns"]
    /\ UNCHANGED buttonFrame

\* LongTaskButton._task_finished, run for the finished notification of thread t
TaskFinished(t) ==
    /\ t \in button.pending
    /\ button' = [button EXCEPT !.pending = @ \ {t},
                                !.thread = 0,
                                !.stop_event = FALSE,
                                !.op = "finished"]
    /\ UNCHANGED buttonFrame

\* the deliveries the binding may make of a notification of a replaced thread
FinishedChoices == IF button.thread \in button.pending THEN BOOLEAN ELSE {TRUE}

NotifyChoices(t) == IF t = button.thread THEN {TRUE} ELSE BOOLEAN

NextButton ==
    \/ \E k \in FinishedChoices : HandleClick(k)
    \/ \E t \in 1..MaxTasks : \E n \in NotifyChoices(t) : TaskReturns(t, n)
    \/ \E t \in 1..MaxTasks : TaskFinished(t)

SpecButton == InitListen /\ [][NextButton]_allVars

-----------------------------------------------------------------------------
(* ConfigList / OTConfigFrame: a list of elements with one widget per element;
   a widget carries the index i it was created with and passes it to the
   remove and clone commands *)

MaxElems == 4

\* what a step of the list leaves alone
listFrame == <<treeVars, train, button, binding>>

\* an element of current_config: its identity and the content it holds
Element(id, content) == [id |-> id, content |-> content]

\* create_widget(parent, element, i, ...)
Widget(element, i) == [element |-> element, i |-> i]

\* _create_element_list: one widget per element, with the index of enumerate
CreateElementList(config) == [k \in 1..Len(config) |-> Widget(config[k], k - 1)]

\* __add_element, from the add button
AddElement ==
    /\ cfg.made < MaxElems
    /\ LET n == Len(cfg.current_config)
           i == IF n = 0 THEN n ELSE n - 1
           new_element == Element(cfg.made + 1, cfg.made + 1)
       IN  cfg' = [cfg EXCEPT !.made = @ + 1,
                              !.current_config = Append(@, new_element),
                              !.widgets = Append(@, Widget(new_element, i)),
                              !.op = "add"]
    /\ UNCHANGED listFrame

\* list.pop(i) for an index in range
PopAt(config, i) == SubSeq(config, 1, i) \o SubSeq(config, i + 2, Len(config))

\* __clone_element(clone_i), from the clone button of widget w
CloneElement(w) ==
    /\ cfg.made < MaxElems
    /\ w \in 1..Len(cfg.widgets)
    /\ LET clone_i == cfg.widgets[w].i
           i == Len(cfg.current_config)
           new_element == Element(cfg.made + 1, cfg.current_config[clone_i + 1].content)
       IN  cfg' = [cfg EXCEPT !.made = @ + 1,
                              !.current_config = Append(@, new_element),
                              !.widgets = Append(@, Widget(new_element, i)),
                              !.op = "clone"]
    /\ UNCHANGED listFrame

\* __remove_element(remove_i), from the remove button of widget w
RemoveElement(w) ==
    /\ w \in 1..Len(cfg.widgets)
    /\ LET remove_i == cfg.widgets[w].i IN
       IF 0 <= remove_i /\ remove_i < Len(cfg.current_config)
       THEN LET config == PopAt(cfg.current_config, remove_i)
            IN  cfg' = [cfg EXCEPT !.current_config = config,
                                   !.widgets = CreateElementList(config),
                                   !.op = "remove"]
       ELSE cfg' = [cfg EXCEPT !.op = "remove"]
    /\ UNCHANGED listFrame

NextList ==
    \/ AddElement
    \/ \E w \in 1..MaxElems : CloneElement(w)
    \/ \E w \in 1..MaxElems : RemoveElement(w)

SpecList == InitListen /\ [][NextList]_allVars

-----------------------------------------------------------------------------
(* Claims about decoding, checked under Spec *)

LastField == FieldOf(lastCall.name)

\* a string the numeric type of the field cannot parse, and no null token of a
\* nullable field nor one of the infinity tokens
Unparseable(fld, sv) ==
    /\ fld.type \in {"int", "float"}
    /\ sv.t = "str"
    /\ ~(fld.nullable /\ IsNullToken(sv))
    /\ sv \notin {PyStr(sInf), PyStr(sNegInf)}
    /\ IF fld.type = "int" THEN IntParse(sv.v).exc = "ValueError"
       ELSE FloatParse(sv.v).exc = "ValueError"

\* C1: a set of an Integer or Float field with a string that does not parse
\* as that type raises nothing and leaves the node's field at the value it held
\* before the call.
C1_RetainOnParseFailure ==
    [][(lastCall'.op = "set" /\ Unparseable(FieldOf(lastCall'.name), lastCall'.arg))
        => (lastCall'.exc = "" /\ obj'[lastCall'.name] = obj[lastCall'.name])]_allVars

\* C2: on an Integer field set("inf") completes with the node's field positive
\* infinity, and set("-inf") completes with it negative infinity.
C2_IntInfinity ==
    (lastCall.op = "set" /\ LastField.type = "int"
        /\ lastCall.arg \in {PyStr(sInf), PyStr(sNegInf)})
    => (lastCall.exc = "" /\ obj[lastCall.name] = PyInf(lastCall.arg = PyStr(sNegInf)))

\* get() of leaf f decodes, by the rule of the field's type, to the value the
\* node's field holds
Consistent(f) ==
    LET d == Decode(FieldOf(f).type, FieldOf(f).nullable, value[f])
    IN  d.exc = "" /\ d.v = obj[f]

\* C3: after a set on a leaf has returned or raised, and after an update has
\* returned, get() of each leaf that was set decodes to the value stored in
\* the node's field.
C3_GetConsistentWithNode ==
    /\ lastCall.op = "set" => Consistent(lastCall.name)
    /\ (lastCall.op = "update" /\ lastCall.exc = "") => \A f \in Leaves : Consistent(f)

\* the UI encoding of a node's value: the string or boolean itself, the str
\* form of a number or enum member, the empty string for null
UiEncodingNullEmpty(ov) ==
    CASE ov = PyNone -> PyStr(sEmpty)
      [] ov.t \in {"str", "bool"} -> ov
      [] OTHER -> PyStr(PyToStr(ov))

\* C11 as stated: after update(newNode) has returned, get() of every bound
\* leaf, at every depth, is the UI encoding of newNode's value for the field,
\* which is the empty string when that value is null.
C11_UpdateEncodesAsStated ==
    (lastCall.op = "update" /\ lastCall.exc = "")
    => \A f \in Leaves : value[f] = UiEncodingNullEmpty(lastCall.arg[f])

\* the same encoding, a Bool field giving the truthiness of the value
UiEncoding(type, ov) ==
    IF type = "bool" THEN PyBool(Truthy(ov)) ELSE UiEncodingNullEmpty(ov)

\* C11: after update(newNode) has returned, get() of every bound leaf, at
\* every depth, is the UI encoding of newNode's value for the field: the
\* string itself, the str form of a number or enum member, the empty string
\* for null, and for a Bool field the truthiness of the value (False for null).
C11_UpdateEncodes ==
    (lastCall.op = "update" /\ lastCall.exc = "")
    => \A f \in Leaves : value[f] = UiEncoding(FieldOf(f).type, lastCall.arg[f])

\* an update has returned that pushed null into a nullable Float field at the
\* root and a string into the nested node's field
C11_Witness ==
    /\ lastCall.op = "update" /\ lastCall.exc = ""
    /\ FieldOf("a").type = "float" /\ lastCall.arg["a"] = PyNone
    /\ value["a"] = PyStr(sEmpty)
    /\ FieldOf("b").type = "str" /\ lastCall.arg["b"] = PyStr(<<"x">>)
    /\ value["b"] = PyStr(<<"x">>)

\* a string that is no tag of the enum and no null token of a nullable field
UnknownTag(fld, sv) ==
    /\ fld.type = "enum"
    /\ sv.t = "str"
    /\ sv.v \notin EnumNames
    /\ ~(fld.nullable /\ (sv.v = sEmpty \/ sv.v = sNone))

\* C15: on an EnumTag field, a set with a string that is no tag of the enum
\* (and no null sentinel of a nullable field) raises an error to the caller
\* and leaves the node's field at the value it held before the call.
C15_UnknownEnumTag ==
    [][(lastCall'.op = "set" /\ UnknownTag(FieldOf(lastCall'.name), lastCall'.arg))
        => (lastCall'.exc # "" /\ obj'[lastCall'.name] = obj[lastCall'.name])]_allVars

\* set("z") on an enum field has raised with the node still holding tag A
C15_Witness ==
    /\ lastCall.op = "set" /\ LastField.type = "enum"
    /\ lastCall.arg = PyStr(<<"z">>)
    /\ lastCall.exc = "KeyError"
    /\ obj[lastCall.name] = PyEnum(<<"A">>)

\* C16: on a nullable String, Integer, Float or EnumTag field, set("") and
\* set("None") each return with the node's field null, whatever it held before.
C16_NullSentinels ==
    [][(/\ lastCall'.op = "set"
        /\ FieldOf(lastCall'.name).nullable
        /\ FieldOf(lastCall'.name).type \in {"str", "int", "float", "enum"}
        /\ lastCall'.arg \in {PyStr(sEmpty), PyStr(sNone)})
        => (lastCall'.exc = "" /\ obj'[lastCall'.name] = PyNone)]_allVars

\* set("None") has returned with a nullable Integer field null
C16_Witness ==
    /\ lastCall.op = "set" /\ lastCall.name = "a"
    /\ LastField.type = "int" /\ LastField.nullable
    /\ lastCall.arg = PyStr(sNone)
    /\ obj["a"] = PyNone
    /\ value["a"] = PyStr(sNone)

\* C17: after set(v) on a Bool field, for any UI value v (boolean, string,
\* integer or null), the node's field is the boolean that is the truthiness of
\* v; it is never null.
C17_BoolTruthiness ==
    (lastCall.op = "set" /\ LastField.type = "bool")
    => obj[lastCall.name] = PyBool(Truthy(lastCall.arg))

-----------------------------------------------------------------------------
(* Claims about listeners, checked under SpecListen *)

UserTraces(f) == SelectSeq(trace_callbacks[f], LAMBDA e : e.cb # "update")

Cbs(d) == [i \in 1..Len(d) |-> d[i].cb]

\* the invocations, in the log of the last call, of a registration of field f
Invocations(f, vias, id) ==
    {i \in 1..Len(log) : log[i].name = f /\ log[i].via \in vias /\ log[i].id = id}

VarVias == {"signal", "var_trace"}

\* C4: during set(x) a listener of the field runs only once the decoded x is
\* in the node's field: whenever a listener is invoked it sees the node hold
\* the decoded value.
C4_NotifyAfterWrite ==
    lastCall.op = "set"
    => \A i \in 1..Len(log) :
          log[i].saw = Decode(LastField.type, LastField.nullable, lastCall.arg).v

\* two listeners on field f, the first registered one raising, the second not,
\* both through the same registration call
FirstRaisesSecondNot(f) ==
    \/ Cbs(UserTraces(f)) = <<"R", "A">> /\ connections[f] = << >>
    \/ UserTraces(f) = << >> /\ Cbs(connections[f]) = <<"R", "A">>
                             /\ var_traces[f] = connections[f]

CalledOn(f) ==
    \/ lastCall.op = "set" /\ lastCall.name = f
    \/ lastCall.op = "update"

\* C5: with two listeners on a field of which the first raises, a set or update
\* still invokes the second exactly once and the exception does not leave the call.
C5_ListenerIsolation ==
    \A f \in Leaves :
        (CalledOn(f) /\ FirstRaisesSecondNot(f))
        => /\ lastCall.exc = ""
           /\ Cardinality({i \in 1..Len(log) : log[i].name = f /\ log[i].who = "A"}) = 1

\* C6: a command whose handle was given to remove_var_trace is not invoked by
\* any later set or update: every invocation that stems from add_var_trace is
\* of a handle the var traces of the field still hold.
C6_RemovedNeverInvoked ==
    lastCall.op \in {"set", "update"}
    => \A i \in 1..Len(log) :
          log[i].via \in VarVias => HasKey(var_traces[log[i].name], log[i].id)

\* the registrations of a registry other than the one of handle h
Others(d, h) == SelectSeq(d, LAMBDA e : e.id # h)

\* C7: an unsubscribe with a handle leaves every registration but the one of
\* that handle in that registry as it was, on every field (the write-through
\* closure included), and changes nothing when the registry does not hold the
\* handle; on a later set that returns, every registration still held is invoked
\* and the write-through has stored the decoded value.
C7_UnsubscribeFrame ==
    [][/\ lastCall'.op = "trace_remove"
            => /\ \A f \in Leaves \ {lastCall'.name} : trace_callbacks'[f] = trace_callbacks[f]
               /\ Others(trace_callbacks'[lastCall'.name], lastCall'.arg)
                    = Others(trace_callbacks[lastCall'.name], lastCall'.arg)
               /\ Len(trace_callbacks'[lastCall'.name]) <= Len(trace_callbacks[lastCall'.name])
               /\ ~HasKey(trace_callbacks[lastCall'.name], lastCall'.arg)
                    => UNCHANGED trace_callbacks
               /\ UNCHANGED <<var_traces, connections, obj, value>>
       /\ lastCall'.op = "remove_var_trace"
            => /\ \A n \in DOMAIN var_traces \ {lastCall'.name} : var_traces'[n] = var_traces[n]
               /\ Others(var_traces'[lastCall'.name], lastCall'.arg)
                    = Others(var_traces[lastCall'.name], lastCall'.arg)
               /\ Len(var_traces'[lastCall'.name]) <= Len(var_traces[lastCall'.name])
               /\ ~HasKey(var_traces[lastCall'.name], lastCall'.arg)
                    => UNCHANGED var_traces
               /\ UNCHANGED <<trace_callbacks, connections, obj, value>>
       /\ (lastCall'.op = "set" /\ lastCall'.exc = "")
            => LET f == lastCall'.name IN
               /\ obj'[f] = Decode(FieldOf(f).type, FieldOf(f).nullable, lastCall'.arg).v
               /\ \A i \in 1..Len(trace_callbacks[f]) :
                    trace_callbacks[f][i].cb # "update"
                    => \E j \in 1..Len(log') :
                          /\ log'[j].via = "trace"
                          /\ log'[j].id = trace_callbacks[f][i].id
                          /\ log'[j].who = trace_callbacks[f][i].cb
               /\ \A i \in 1..Len(var_traces[f]) :
                    \E j \in 1..Len(log') :
                          /\ log'[j].via = "var_trace"
                          /\ log'[j].id = var_traces[f][i].id
                          /\ log'[j].who = var_traces[f][i].cb
      ]_allVars

\* one of two registrations of the same callable on field a was removed with
\* its handle, and a later set has invoked the other one
C7_Witness ==
    /\ lastCall.op = "set" /\ lastCall.name = "a" /\ lastCall.exc = ""
    /\ Cbs(connections["a"]) = <<"A", "A">>
    /\ Len(var_traces["a"]) = 1
    /\ Invocations("a", {"var_trace"}, var_traces["a"][1].id) # {}

\* a registration made while the call was running: its id is beyond what the
\* counter of its registry had handed out when the call started
MadeDuring(e) ==
    IF e.via = "trace" THEN e.id > trace_id_counter[e.name]
    ELSE e.id > latest_var_trace_id[LeafState(e.name)]

\* C8: when a listener invoked for a set on a field subscribes a new listener
\* to that field, the set returns without error and the new listener is not
\* invoked for that set.
C8_ReentrantSubscribe ==
    [][(/\ lastCall'.op = "set"
        /\ \E i \in 1..Len(log') : log'[i].who \in {"S", "V"}
        /\ \A i \in 1..Len(log') : log'[i].who # "R")
        => /\ lastCall'.exc = ""
           /\ \A i \in 1..Len(log') : ~MadeDuring(log'[i])]_allVars

First(S) == CHOOSE i \in S : \A j \in S : i <= j

\* C9: a set invokes the listeners of the field in registration order.  Within
\* one registry the handles give the order; across the two, every trace
\* callback held when add_var_trace returns was registered before the new var
\* trace, and every var trace held when trace_add returns was registered
\* before the new trace callback.  Invocations are compared by their first
\* occurrence in the call.
C9_RegistrationOrder ==
    [][lastCall'.op = "set" =>
        LET f == lastCall'.name
            inv(vias, id) == {i \in 1..Len(log') :
                                log'[i].via \in vias /\ log'[i].id = id}
            before(va, ia, vb, ib) ==
                (inv(va, ia) # {} /\ inv(vb, ib) # {})
                => First(inv(va, ia)) < First(inv(vb, ib))
        IN  /\ \A i, j \in 1..Len(trace_callbacks[f]) :
                (i < j /\ trace_callbacks[f][i].cb # "update")
                => before({"trace"}, trace_callbacks[f][i].id,
                          {"trace"}, trace_callbacks[f][j].id)
            /\ \A i, j \in 1..Len(connections[f]) :
                i < j => before(VarVias, connections[f][i].id, VarVias, connections[f][j].id)
            /\ (lastCall.op = "add_var_trace" /\ lastCall.name = f /\ lastCall.exc = "")
                => \A i \in 1..Len(trace_callbacks[f]) :
                      trace_callbacks[f][i].cb # "update"
                      => before({"trace"}, trace_callbacks[f][i].id, VarVias, lastCall.ret)
            /\ (lastCall.op = "trace_add" /\ lastCall.name = f)
                => \A i \in 1..Len(connections[f]) :
                      before(VarVias, connections[f][i].id, {"trace"}, lastCall.ret)
      ]_allVars

IsPrefix(p, q) == Len(p) <= Len(q) /\ SubSeq(q, 1, Len(p)) = p

\* C10: update leaves the entries of the tree as they are: get_var of every
\* path gives the same object before and after, and every listener registered
\* on a field before the call is registered after it.
C10_UpdateKeepsEntries ==
    [][lastCall'.op = "update" =>
        /\ vars' = vars
        /\ \A p \in Paths : GetVar(p)' = GetVar(p)
        /\ \A f \in Leaves :
            /\ IsPrefix(trace_callbacks[f], trace_callbacks'[f])
            /\ IsPrefix(connections[f], connections'[f])
        /\ \A n \in DOMAIN var_traces : IsPrefix(var_traces[n], var_traces'[n])
      ]_allVars

\* an update has returned on a tree with a listener on each of the two
\* registries of field a, after invoking them
C10_Witness ==
    /\ lastCall.op = "update" /\ lastCall.exc = ""
    /\ UserTraces("a") # << >>
    /\ var_traces["a"] # << >>
    /\ \E i \in 1..Len(log) : log[i].via = "trace"
    /\ GetVar(<<"sub", "b">>).exc = ""

\* the listener invocations for field f in a log, in order
CallsOf(lg, f) ==
    LET sel == SelectSeq(lg, LAMBDA e : e.name = f)
    IN  [i \in 1..Len(sel) |-> <<sel[i].via, sel[i].id, sel[i].who>>]

\* C12: update notifies the listeners of each bound leaf exactly as a set on
\* that leaf with the same value would: the invocations of the leaf's
\* listeners during the update are those of such a set, in the same order,
\* and the node's field holds what that set would have written.
C12_UpdateNotifiesAsSet ==
    [][lastCall'.op = "update" =>
        \A f \in Leaves :
            \E q \in BOOLEAN :
                \E w \in {VarSet(World, f, UpdateValue(FieldOf(f).type, lastCall'.arg[f]), q)} :
                    /\ CallsOf(log', f) = CallsOf(w.log, f)
                    /\ obj'[f] = w.obj[f]
      ]_allVars

\* C19: every set on a bound field invokes the field's listeners, whatever the
\* input (also one that decodes to the value already stored, and one that does
\* not parse as a number): each trace callback and each var trace the field
\* held when the call started is invoked during the call.
C19_AlwaysNotify ==
    [][lastCall'.op = "set" =>
        LET f == lastCall'.name IN
        /\ \A i \in 1..Len(trace_callbacks[f]) :
              trace_callbacks[f][i].cb # "update"
              => \E j \in 1..Len(log') :
                    /\ log'[j].name = f /\ log'[j].via = "trace"
                    /\ log'[j].id = trace_callbacks[f][i].id
        /\ \A i \in 1..Len(var_traces[f]) :
              \E j \in 1..Len(log') :
                    /\ log'[j].name = f /\ log'[j].via \in VarVias
                    /\ log'[j].id = var_traces[f][i].id
      ]_allVars

\* C25: a command registered once with add_var_trace(name, command) is invoked
\* exactly once during a set on that field, when no listener raises.
C25_VarTraceInvokedOnce ==
    [][(/\ lastCall'.op = "set"
        /\ lastCall'.exc = ""
        /\ \A j \in 1..Len(log') : log'[j].who # "R")
        => LET f == lastCall'.name IN
           \A i \in 1..Len(var_traces[f]) :
               Cardinality({j \in 1..Len(log') :
                               /\ log'[j].name = f /\ log'[j].via \in VarVias
                               /\ log'[j].id = var_traces[f][i].id}) = 1
      ]_allVars

-----------------------------------------------------------------------------
(* Claims about a set made from a listener, checked under SpecReenter *)

\* the invocations a call made, in order: how, which registration, and the
\* get() it saw
CallSequence(lg) == [i \in 1..Len(lg) |-> <<lg[i].via, lg[i].id, lg[i].got>>]

\* the invocations made by the set a listener called
InnerLog(lg) == SelectSeq(lg, LAMBDA e : e.depth = 1)

\* C23: when a listener of field F calls F.set(y) once while it is invoked
\* for F.set(x), the inner call invokes the listeners exactly as a set(y) made
\* by a control does, and when the outer set returns both get() and the
\* node's field hold y (decoded).
C23_ReentrantSet ==
    [][(/\ lastCall'.op = "set"
        /\ lastCall'.exc = ""
        /\ \E j \in 1..Len(log') : log'[j].who = "Y")
        => LET f == lastCall'.name
               plain == VarSet([World EXCEPT !.fired = TRUE], f, ReenterValue, FALSE)
           IN  /\ value'[f] = ReenterValue
               /\ obj'[f] = Decode(FieldOf(f).type, FieldOf(f).nullable, ReenterValue).v
               /\ CallSequence(InnerLog(log')) = CallSequence(plain.log)
               /\ Len(plain.log) > 0
      ]_allVars

\* a set of b with input 12 has returned after a listener registered with
\* add_var_trace set the field to 7 from inside it, beside a second listener
C23_Witness ==
    /\ lastCall.op = "set" /\ lastCall.name = "b" /\ lastCall.exc = ""
    /\ lastCall.arg = PyStr(<<"1", "2">>)
    /\ \E j \in 1..Len(log) : log[j].who = "Y" /\ log[j].via = "signal" /\ log[j].depth = 0
    /\ \E j \in 1..Len(log) : log[j].who = "A" /\ log[j].depth = 1
    /\ obj["b"] = PyInt(7)

-----------------------------------------------------------------------------
(* Claims about the node the tree writes to, checked under SpecRebind *)

\* what the write-through of leaf f stores for the var value v
Stored(f, v) == Decode(FieldOf(f).type, FieldOf(f).nullable, v).v

\* C27: the write-through target of every leaf is fixed at build time:
\* update(newNode) with a node that is another object than the build-time
\* node makes self.obj refer to newNode, writes every leaf to the build-time
\* node and leaves newNode as it was handed over; every set after it writes
\* to the build-time node and leaves newNode unchanged.
C27_WriteTargetFixed ==
    [][/\ lastCall'.op = "update"
          => /\ binding' = [self_obj |-> "new", newNode |-> lastCall'.arg]
             /\ \A f \in Leaves :
                    obj'[f] = Stored(f, UpdateValue(FieldOf(f).type, lastCall'.arg[f]))
       /\ (lastCall'.op = "set" /\ binding.self_obj = "new")
          => /\ binding' = binding
             /\ obj'[lastCall'.name] = Stored(lastCall'.name, lastCall'.arg)
      ]_allVars

\* after update(newNode) with a node holding a = '' a set('y') on a has written
\* the build-time node, and newNode still holds ''
C27_Witness ==
    /\ lastCall.op = "set" /\ lastCall.name = "a" /\ lastCall.arg = PyStr(<<"y">>)
    /\ binding.self_obj = "new"
    /\ binding.newNode = ListenNode(PyStr(sEmpty), PyInt(0 - 3))
    /\ obj["a"] = PyStr(<<"y">>)

-----------------------------------------------------------------------------
(* Claims about get_var, checked under Spec *)

\* the paths of the leaves and of all the entries of the tree, by its shape:
\* leaf a and the nested node sub at the root, leaf b inside sub
LeafPaths == {<<"a">>, <<"sub", "b">>}

BoundPaths == LeafPaths \cup {<<"sub">>}

LookupErrors == {"KeyError", "AttributeError"}

\* C13 as stated: get_var(path) returns a leaf var or fails with a lookup
\* error; it never returns a nested UIState.
C13_GetVarNeverReturnsTree ==
    lastCall.op = "get_var"
    => \/ lastCall.exc \in LookupErrors
       \/ lastCall.exc = "" /\ lastCall.ret.cls \in {"_StringVar", "_BoolVar"}

\* C13: get_var(path) returns the entry the path names, which is the leaf var
\* of a leaf field and the nested UIState when the last segment names a field
\* whose type is a nested config node; for every other path it fails with a
\* lookup error.
C13_GetVarResult ==
    lastCall.op = "get_var"
    => IF lastCall.arg \in BoundPaths
       THEN /\ lastCall.exc = ""
            /\ lastCall.ret.ref = lastCall.arg[Len(lastCall.arg)]
            /\ lastCall.ret.cls =
                    IF lastCall.arg \in LeafPaths
                    THEN VarClass(FieldOf(lastCall.arg[Len(lastCall.arg)]).type)
                    ELSE "UIState"
       ELSE lastCall.exc \in LookupErrors

\* get_var("sub") has returned the nested UIState
C13_Witness ==
    /\ lastCall.op = "get_var" /\ lastCall.arg = <<"sub">>
    /\ lastCall.exc = "" /\ lastCall.ret.cls = "UIState"

\* a segment before the last one resolves to a leaf var
DescendsIntoLeaf(path) == \E k \in 1..(Len(path) - 1) : SubSeq(path, 1, k) \in LeafPaths

\* C14: get_var(path) raises a lookup error whenever a segment before the last
\* resolves to a leaf var, at any depth, and then changes no entry of the tree,
\* no field value and no listener registration.
C14_CannotDescendIntoLeaf ==
    [][(lastCall'.op = "get_var" /\ DescendsIntoLeaf(lastCall'.arg))
        => /\ lastCall'.exc \in LookupErrors
           /\ UNCHANGED <<types, vars, obj, value, trace_callbacks, trace_id_counter,
                          var_traces, latest_var_trace_id, connections>>
      ]_allVars

\* get_var("sub.b.a") has failed at the leaf b, two levels down
C14_Witness ==
    /\ lastCall.op = "get_var" /\ lastCall.arg = <<"sub", "b", "a">>
    /\ lastCall.exc = "AttributeError"

-----------------------------------------------------------------------------
(* Claims about the build, checked under Spec *)

SupportedTypes == {"config", "str", "bool", "int", "float", "enum"}

\* the fields of UIState s of a type the engine binds, and the others, by name
FieldsWhere(s, supported) ==
    {types[s][i].name :
        i \in {k \in 1..Len(types[s]) : (types[s][k].type \in SupportedTypes) = supported}}

\* C18: the build over a node with fields of a type that is none of
\* nested-node, string, bool, integer, float, enum succeeds; exactly the fields
\* of supported type have an entry; get_var of an unsupported field fails; and
\* an unsupported field of the node holds at all times the value it was built
\* with.
C18_UnsupportedSkipped ==
    /\ lastCall.op = "init" => lastCall.exc = ""
    /\ \A s \in States : DOMAIN vars[s] = FieldsWhere(s, TRUE)
    /\ \A s \in States : \A n \in FieldsWhere(s, FALSE) : obj[n] = PyList
    /\ (lastCall.op = "get_var" /\ lastCall.arg[Len(lastCall.arg)] \in FieldsWhere("root", FALSE))
        => lastCall.exc \in LookupErrors

\* on a tree built over a node with an unsupported field, after a set on a
\* bound field of the same node, get_var of the unsupported field was tried
C18_Witness ==
    /\ FieldsWhere("root", FALSE) = {"extra"}
    /\ lastCall.op = "get_var" /\ lastCall.arg = <<"extra">>
    /\ lastCall.exc = "KeyError"
    /\ value["a"] = PyStr(<<"a", "b", "c">>)

\* C22: update(node) on a tree built over a node of the same schema returns
\* without error and sets the var of every bound leaf from the node, also when
\* the schema holds a field of unsupported type that the build skipped.
C22_UpdateSkipsUnsupported ==
    [][(lastCall'.op = "update" /\ FieldsWhere("root", FALSE) # {})
        => /\ lastCall'.exc = ""
           /\ \A f \in Leaves : value'[f] = UpdateValue(FieldOf(f).type, lastCall'.arg[f])
      ]_allVars

\* C26: a non-nullable String, Integer or Float field whose node value is not
\* null keeps a non-null node value through every set with a string input and
\* every update from a node.
C26_NonNullableStaysNonNull ==
    [][\A f \in Leaves :
        (/\ FieldOf(f).type \in {"str", "int", "float"}
         /\ ~FieldOf(f).nullable
         /\ obj[f] # PyNone
         /\ \/ lastCall'.op = "update"
            \/ lastCall'.op = "set" /\ lastCall'.arg.t = "str")
        => obj'[f] # PyNone
      ]_allVars

-----------------------------------------------------------------------------
(* Claims about the element lists, checked under SpecList *)

\* C24: after any sequence of add, clone and remove, every element widget was
\* created with the index of its own element in current_config.
C24_WidgetIndexIsPosition ==
    \A k \in 1..Len(cfg.widgets) :
        /\ cfg.widgets[k].i + 1 \in 1..Len(cfg.current_config)
        /\ cfg.current_config[cfg.widgets[k].i + 1] = cfg.widgets[k].element

-----------------------------------------------------------------------------
(* Claims about the LongTaskButton, checked under SpecButton *)

\* C21: a click made while a task of the button is running sets stop_event
\* and starts no task; a click made while no task is running clears
\* stop_event and starts exactly one task.
C21_ClickStartsOrStops ==
    [][button'.op = "click" =>
        IF button.running # {}
        THEN /\ button'.stop_event
             /\ button'.started = button.started
             /\ button'.running = button.running
        ELSE /\ ~button'.stop_event
             /\ button'.started = button.started + 1
             /\ Cardinality(button'.running) = 1
      ]_allVars

\* C28: at most one task callback started by the button is executing at any
\* time.
C28_OneTaskAtATime == Cardinality(button.running) <= 1

-----------------------------------------------------------------------------
(* Claims about threads, checked under SpecTrain *)

\* C20: every set and update on the shared tree is made on the UI thread: the
\* training thread started by start_training never calls set or update on it.
C20_UiThreadOnly == train.workerCalls = {}

\* C29: at most one __training_thread_function is executing at any time.
C29_OneTrainingThread == Executing <= 1

\* C30: open_sampling_tool, called while no training run is in progress (no
\* training thread set and none executing), opens the sample window, also
\* after a run has started and finished.
C30_SamplingToolOpens ==
    [][(/\ train'.op = "open_sampling_tool"
        /\ lastCall' = lastCall
        /\ train.training_thread = "None"
        /\ Executing = 0)
        => train'.sample = "opened"
      ]_allVars

====
